---- MODULE Spec2Model ----
(***************************************************************************)
(* The attestation message codec of src/attestation/sev.rs.                *)
(*                                                                         *)
(* The types of sev.rs derive serde's Serialize and Deserialize and the    *)
(* tests drive them through ciborium's into_writer and from_reader.  The   *)
(* wire is modelled as the stream of CBOR headers those two functions      *)
(* write and pull: a map or array header with its length, a text string,   *)
(* an unsigned integer, null.  A message is a variant name with the        *)
(* sequence of its byte-sequence fields in declaration order.              *)
(***************************************************************************)
EXTENDS Integers, Sequences, FiniteSets, TLC

\* Longest byte sequence a field of a sample message holds.
MaxLen == 1

(***************************************************************************)
(* CBOR headers                                                            *)
(***************************************************************************)
Map(n) == [h |-> "map", n |-> n, s |-> ""]
Arr(n) == [h |-> "array", n |-> n, s |-> ""]
Txt(s) == [h |-> "text", n |-> 0, s |-> s]
Pos(v) == [h |-> "positive", n |-> v, s |-> ""]
Null == [h |-> "null", n |-> 0, s |-> ""]

\* Largest value of a u8, the element type of every Vec<u8> field.
U8Max == 255

(***************************************************************************)
(* The message types                                                       *)
(***************************************************************************)
ChainFields == <<"ark", "ask", "oca", "cek", "pek", "pdh">>
LaunchStartFields == <<"policy", "cert", "session">>
MeasurementFields == <<"build", "measurement">>

Variants ==
  {"CertificateChainNaples", "CertificateChainRome", "LaunchStart",
   "Measurement", "Secret", "Finish"}

\* The variant identifiers as declared, with no renaming.
VariantTagAsDeclared(v) == v

\* #[serde(rename_all = "kebab-case")] applied to the variant identifiers.
VariantTag(v) ==
  CASE v = "CertificateChainNaples" -> "certificate-chain-naples"
    [] v = "CertificateChainRome" -> "certificate-chain-rome"
    [] v = "LaunchStart" -> "launch-start"
    [] v = "Measurement" -> "measurement"
    [] v = "Secret" -> "secret"
    [] v = "Finish" -> "finish"

\* The payload type of a variant: a struct of named Vec<u8> fields, a bare
\* Vec<u8>, or the unit struct Finish.
PayloadKind(v) ==
  CASE v \in {"CertificateChainNaples", "CertificateChainRome",
              "LaunchStart", "Measurement"} -> "struct"
    [] v = "Secret" -> "bytes"
    [] v = "Finish" -> "unit"

FieldNames(v) ==
  CASE v \in {"CertificateChainNaples", "CertificateChainRome"} -> ChainFields
    [] v = "LaunchStart" -> LaunchStartFields
    [] v = "Measurement" -> MeasurementFields
    [] OTHER -> <<>>

\* Number of Vec<u8> values a payload holds.
Arity(v) ==
  CASE PayloadKind(v) = "struct" -> Len(FieldNames(v))
    [] PayloadKind(v) = "bytes" -> 1
    [] PayloadKind(v) = "unit" -> 0

\* Sample field contents: the n largest byte values, largest first.
Blob(n) == [i \in 1..n |-> U8Max + 1 - i]
Blobs == {Blob(n) : n \in 0..MaxLen}

Message(v, p) == [variant |-> v, payload |-> p]
Messages ==
  UNION {{Message(v, p) : p \in [1..Arity(v) -> Blobs]} : v \in Variants}

NoMessage == [variant |-> "", payload |-> <<>>]

(***************************************************************************)
(* Serialization: what into_writer writes for a Message                    *)
(***************************************************************************)
RECURSIVE Flatten(_)
Flatten(seqs) ==
  IF seqs = <<>> THEN <<>> ELSE Head(seqs) \o Flatten(Tail(seqs))

\* A Vec<u8> is written as an array of unsigned integers.
SerializeBytes(b) == <<Arr(Len(b))>> \o [i \in 1..Len(b) |-> Pos(b[i])]

\* One map entry: the field's name and its value.
Entry(k, v) == [k |-> k, v |-> v]
EntryTokens(e) == <<Txt(e.k)>> \o e.v
MapOf(entries) ==
  <<Map(Len(entries))>>
    \o Flatten([i \in 1..Len(entries) |-> EntryTokens(entries[i])])

\* The fields of a struct in declaration order.
StructEntries(names, p) ==
  [i \in 1..Len(names) |-> Entry(names[i], SerializeBytes(p[i]))]

SerializeStruct(names, p) == MapOf(StructEntries(names, p))

\* A unit struct written as a map of no entry.
SerializeUnitAsEmptyMap == <<Map(0)>>

\* The unit struct Finish is written as null.
SerializeUnit == <<Null>>

SerializePayload(m) ==
  CASE PayloadKind(m.variant) = "struct" ->
         SerializeStruct(FieldNames(m.variant), m.payload)
    [] PayloadKind(m.variant) = "bytes" -> SerializeBytes(m.payload[1])
    [] PayloadKind(m.variant) = "unit" -> SerializeUnit

\* A newtype variant is written as a map of one entry, tag to payload.
Envelope(tag, payloadTokens) == <<Map(1), Txt(tag)>> \o payloadTokens

Serialize(m) == Envelope(VariantTag(m.variant), SerializePayload(m))

(***************************************************************************)
(* Deserialization: what from_reader makes of a header stream              *)
(***************************************************************************)
\* The outcome of one deserializer call: the value and the position of the
\* next header, or the error.
Good(val, pos) == [ok |-> TRUE, val |-> val, pos |-> pos, err |-> ""]
Bad(err) == [ok |-> FALSE, val |-> <<>>, pos |-> 0, err |-> err]

\* A u8 deserializer that takes the largest value for out of range.
DeserializeU8Exclusive(w, i) ==
  IF i > Len(w) THEN Bad("eof")
  ELSE IF w[i].h # "positive" THEN Bad("expected u8")
  ELSE IF w[i].n >= U8Max THEN Bad("u8 out of range")
  ELSE Good(w[i].n, i + 1)

\* A u8: an unsigned integer that fits.
DeserializeU8(w, i) ==
  IF i > Len(w) THEN Bad("eof")
  ELSE IF w[i].h # "positive" THEN Bad("expected u8")
  ELSE IF w[i].n > U8Max THEN Bad("u8 out of range")
  ELSE Good(w[i].n, i + 1)

RECURSIVE SeqElements(_, _, _, _)
SeqElements(w, i, k, acc) ==
  IF k = 0 THEN Good(acc, i)
  ELSE LET e == DeserializeU8(w, i)
       IN IF e.ok THEN SeqElements(w, e.pos, k - 1, Append(acc, e.val))
          ELSE Bad(e.err)

\* A Vec<u8>: an array header and its elements.
DeserializeBytes(w, i) ==
  IF i > Len(w) THEN Bad("eof")
  ELSE IF w[i].h # "array" THEN Bad("expected array")
  ELSE SeqElements(w, i + 1, w[i].n, <<>>)

\* Number of data items a header is followed by as its content.
Children(t) ==
  CASE t.h = "array" -> t.n
    [] t.h = "map" -> 2 * t.n
    [] OTHER -> 0

\* The position after k whole data items starting at i; 0 at end of input.
RECURSIVE SkipItems(_, _, _)
SkipItems(w, i, k) ==
  IF k = 0 THEN i
  ELSE IF i > Len(w) THEN 0
  ELSE SkipItems(w, i + 1, k - 1 + Children(w[i]))

\* The value of a field the struct does not name is read and dropped.
IgnoredAny(w, i) ==
  LET j == SkipItems(w, i, 1)
  IN IF j = 0 THEN Bad("eof") ELSE Good(<<>>, j)

Unset == [set |-> FALSE, val |-> <<>>]
IsSet(val) == [set |-> TRUE, val |-> val]

IndexOf(names, k) ==
  IF \E i \in 1..Len(names) : names[i] = k
  THEN CHOOSE i \in 1..Len(names) : names[i] = k
  ELSE 0

\* A struct whose absent fields default to the empty vector.
FinishStructDefaulting(names, got) ==
  [ok |-> TRUE, val |-> [i \in 1..Len(names) |-> got[i].val], err |-> ""]

\* The end of a struct's map: every field must have been seen.
FinishStruct(names, got) ==
  IF \A i \in 1..Len(names) : got[i].set
  THEN [ok |-> TRUE, val |-> [i \in 1..Len(names) |-> got[i].val], err |-> ""]
  ELSE [ok |-> FALSE, val |-> <<>>, err |-> "missing field"]

\* A key the struct does not name.
UnknownField(w, i) == IgnoredAny(w, i)

\* The derived visit_map: k entries are left, got holds the fields seen.
RECURSIVE VisitMap(_, _, _, _, _)
VisitMap(w, i, k, names, got) ==
  IF k = 0
  THEN LET f == FinishStruct(names, got)
       IN IF f.ok THEN Good(f.val, i) ELSE Bad(f.err)
  ELSE IF i > Len(w) THEN Bad("eof")
  ELSE IF w[i].h # "text" THEN Bad("expected str")
  ELSE LET x == IndexOf(names, w[i].s)
       IN IF x = 0
          THEN LET s == UnknownField(w, i + 1)
               IN IF s.ok THEN VisitMap(w, s.pos, k - 1, names, got)
                  ELSE Bad(s.err)
          ELSE IF got[x].set THEN Bad("duplicate field")
          ELSE LET v == DeserializeBytes(w, i + 1)
               IN IF v.ok
                  THEN VisitMap(w, v.pos, k - 1, names,
                                [got EXCEPT ![x] = IsSet(v.val)])
                  ELSE Bad(v.err)

\* A struct read by position: the k-th value of the map is the k-th field,
\* whatever its key.
RECURSIVE VisitPositional(_, _, _, _)
VisitPositional(w, i, k, acc) ==
  IF k = 0 THEN Good(acc, i)
  ELSE IF i > Len(w) THEN Bad("eof")
  ELSE IF w[i].h # "text" THEN Bad("expected str")
  ELSE LET v == DeserializeBytes(w, i + 1)
       IN IF v.ok THEN VisitPositional(w, v.pos, k - 1, Append(acc, v.val))
          ELSE Bad(v.err)

DeserializeStructPositional(w, i, names) ==
  IF i > Len(w) THEN Bad("eof")
  ELSE IF w[i].h # "map" THEN Bad("expected map")
  ELSE IF w[i].n # Len(names) THEN Bad("invalid length")
  ELSE VisitPositional(w, i + 1, w[i].n, <<>>)

\* A struct of named Vec<u8> fields: a map header and its entries.
DeserializeStruct(w, i, names) ==
  IF i > Len(w) THEN Bad("eof")
  ELSE IF w[i].h # "map" THEN Bad("expected map")
  ELSE VisitMap(w, i + 1, w[i].n, names, [x \in 1..Len(names) |-> Unset])

\* The unit struct Finish: null.
DeserializeUnit(w, i) ==
  IF i > Len(w) THEN Bad("eof")
  ELSE IF w[i].h # "null" THEN Bad("expected unit")
  ELSE Good(<<>>, i + 1)

\* The payload of the variant the tag named.
DeserializePayload(w, i, v) ==
  CASE PayloadKind(v) = "struct" -> DeserializeStruct(w, i, FieldNames(v))
    [] PayloadKind(v) = "bytes" ->
         LET b == DeserializeBytes(w, i)
         IN IF b.ok THEN Good(<<b.val>>, b.pos) ELSE Bad(b.err)
    [] PayloadKind(v) = "unit" -> DeserializeUnit(w, i)

\* The variant a tag names.
VariantOf(tag) ==
  IF \E v \in Variants : VariantTag(v) = tag
  THEN CHOOSE v \in Variants : VariantTag(v) = tag
  ELSE ""

\* The variant identifier, then the variant's payload.
VisitEnum(w, i) ==
  IF i > Len(w) THEN Bad("eof")
  ELSE IF w[i].h # "text" THEN Bad("expected str")
  ELSE LET v == VariantOf(w[i].s)
       IN IF v = "" THEN Bad("unknown variant")
          ELSE LET p == DeserializePayload(w, i + 1, v)
               IN IF p.ok THEN Good(Message(v, p.val), p.pos) ELSE Bad(p.err)

\* Where the enum's variant identifier starts: after the header of a map of
\* one entry, or at a text string, which the CBOR deserializer takes for a
\* variant's name as it stands.  0: the first header is neither.
EnumStart(w) ==
  IF w[1] = Map(1) THEN 2
  ELSE IF w[1].h = "text" THEN 1
  ELSE 0

\* An externally tagged enum.
DeserializeEnum(w) ==
  IF Len(w) = 0 THEN Bad("eof")
  ELSE IF EnumStart(w) = 0 THEN Bad("expected enum")
  ELSE VisitEnum(w, EnumStart(w))

\* What the caller of from_reader sees.
Ok(m) == [ok |-> TRUE, msg |-> m, err |-> ""]
Err(e) == [ok |-> FALSE, msg |-> NoMessage, err |-> e]

\* from_reader reads one Message and leaves what follows it unread.
FromReader(w) ==
  LET r == DeserializeEnum(w)
  IN IF r.ok THEN Ok(r.val) ELSE Err(r.err)

NoResult == [ok |-> FALSE, msg |-> NoMessage, err |-> "none"]

(***************************************************************************)
(* The codec at work: a message is written, the bytes may be crafted, and  *)
(* the reader decodes, writes again and decodes again (the tests'          *)
(* test_message_representation).                                           *)
(***************************************************************************)
VARIABLES
  msg,      \* the Message the writer holds
  wire,     \* the header stream handed to from_reader
  craft,    \* how the stream was made: [kind, tag, idx]
  result,   \* what from_reader returned
  out,      \* the decoded Message written again
  result2,  \* what from_reader returned for out
  pc,
  stage,    \* handshake steps the session has accepted
  stream,   \* what the session was sent, by variant, in order
  flagged,  \* the session found its stream invalid
  split,    \* a split-representation message: [mimetype, payload, raw]
  resolved  \* how the resolver read the split message's payload

codecVars == <<msg, wire, craft, result, out, result2, pc>>
sessionVars == <<stage, stream, flagged>>
resolverVars == <<split, resolved>>
vars == <<codecVars, sessionVars, resolverVars>>

NoSplit == [mimetype |-> "", payload |-> <<>>, raw |-> FALSE]
Unresolved == [how |-> "none", variant |-> "", fields |-> <<>>]

Made(kind, tag, idx) == [kind |-> kind, tag |-> tag, idx |-> idx]

Init ==
  /\ msg = NoMessage
  /\ wire = <<>>
  /\ craft = Made("none", "", 0)
  /\ result = NoResult
  /\ out = <<>>
  /\ result2 = NoResult
  /\ pc = "idle"
  /\ stage = 0
  /\ stream = <<>>
  /\ flagged = FALSE
  /\ split = NoSplit
  /\ resolved = Unresolved

\* into_writer(&m, &mut out)
Encode ==
  /\ pc = "idle"
  /\ \E m \in Messages :
       /\ msg' = m
       /\ wire' = Serialize(m)
  /\ craft' = Made("encoded", "", 0)
  /\ pc' = "wire"
  /\ UNCHANGED <<result, out, result2>>

(***************************************************************************)
(* Crafted input: streams no writer produces, derived from a written one.  *)
(* Each is made once from the writer's stream and then handed to the       *)
(* reader like any other.                                                  *)
(***************************************************************************)
IsStruct(m) == PayloadKind(m.variant) = "struct"
EntriesOf(m) == StructEntries(FieldNames(m.variant), m.payload)

Swap(n, a, b) ==
  [i \in 1..n |-> IF i = a THEN b ELSE IF i = b THEN a ELSE i]
Rotate(n) == [i \in 1..n |-> (i % n) + 1]
\* ark, ask, pek, cek, pdh, oca: the order of the tests' certificate chains.
TestChainOrder == <<1, 2, 5, 4, 6, 3>>
WireOrders(n) ==
  {Swap(n, a, b) : a, b \in 1..n} \cup {Rotate(n)}
    \cup (IF n = Len(ChainFields) THEN {TestChainOrder} ELSE {})

Permuted(entries, p) == [i \in 1..Len(entries) |-> entries[p[i]]]
Without(entries, x) ==
  [i \in 1..(Len(entries) - 1) |-> IF i < x THEN entries[i] ELSE entries[i + 1]]
InsertAt(entries, x, e) ==
  [i \in 1..(Len(entries) + 1) |->
     IF i < x THEN entries[i] ELSE IF i = x THEN e ELSE entries[i - 1]]

\* The same fields in another order.
Reorder ==
  /\ pc = "wire" /\ craft.kind = "encoded" /\ IsStruct(msg)
  /\ \E p \in WireOrders(Arity(msg.variant)) :
       /\ p # [i \in 1..Arity(msg.variant) |-> i]
       /\ wire' = Envelope(VariantTag(msg.variant),
                           MapOf(Permuted(EntriesOf(msg), p)))
  /\ craft' = Made("reordered", "", 0)
  /\ UNCHANGED <<msg, result, out, result2, pc>>

\* One named field left out.
DropField ==
  /\ pc = "wire" /\ craft.kind = "encoded" /\ IsStruct(msg)
  /\ \E x \in 1..Arity(msg.variant) :
       /\ wire' = Envelope(VariantTag(msg.variant),
                           MapOf(Without(EntriesOf(msg), x)))
       /\ craft' = Made("dropped", FieldNames(msg.variant)[x], x)
  /\ UNCHANGED <<msg, result, out, result2, pc>>

\* Keys no struct of the protocol names.
UnknownKeys == {"extra"}
\* Values an added entry carries: a byte array, null, a nested map.
ExtraValues ==
  {SerializeBytes(Blob(1)), <<Null>>, <<Map(1), Txt("k"), Arr(0)>>}

\* One entry more than the struct has fields: under a key the struct does
\* not name (an unknown key, or a field of another struct), or under one of
\* its own names a second time.
AddField ==
  /\ pc = "wire" /\ craft.kind = "encoded" /\ IsStruct(msg)
  /\ LET names == FieldNames(msg.variant)
         own == {names[i] : i \in 1..Len(names)}
         foreign == {"ark", "policy", "build"} \ own
     IN \E k \in UnknownKeys \cup foreign \cup {names[1]}, v \in ExtraValues,
           x \in {1, Len(names) + 1} :
          /\ wire' = Envelope(VariantTag(msg.variant),
                              MapOf(InsertAt(EntriesOf(msg), x, Entry(k, v))))
          /\ craft' = Made(IF k \in own THEN "duplicate" ELSE "extra", k, x)
  /\ UNCHANGED <<msg, result, out, result2, pc>>

\* Tags that name no variant.
UnknownTags == {"bogus", "Secret", "launch_start"}

\* The payload of one variant under another tag.
Retag ==
  /\ pc = "wire" /\ craft.kind = "encoded"
  /\ \E t \in ({VariantTag(v) : v \in Variants} \ {VariantTag(msg.variant)})
               \cup UnknownTags :
       /\ wire' = Envelope(t, SerializePayload(msg))
       /\ craft' = Made("retagged", t, 0)
  /\ UNCHANGED <<msg, result, out, result2, pc>>

\* Payloads of the wrong type, or of the right type with a bad element.
CraftedPayloads ==
  << <<Null>>, <<Map(0)>>, <<Arr(0)>>, <<Arr(1), Pos(U8Max + 1)>>,
     <<Arr(1), Null>>, <<Pos(0)>>, <<Txt("x")>> >>

ReplacePayload ==
  /\ pc = "wire" /\ craft.kind = "encoded"
  /\ \E x \in 1..Len(CraftedPayloads) :
       /\ CraftedPayloads[x] # SerializePayload(msg)
       /\ wire' = Envelope(VariantTag(msg.variant), CraftedPayloads[x])
       /\ craft' = Made("payload", "", x)
  /\ UNCHANGED <<msg, result, out, result2, pc>>

\* Outer containers that are not a map of one entry keyed by a text string:
\* the bare tag followed by the payload, a map of no entry, a map of two
\* entries, an array, null, a map whose key is a number, the bare tag alone.
Reshaped(tag, p) ==
  << <<Txt(tag)>> \o p,
     <<Map(0)>>,
     <<Map(2), Txt(tag)>> \o p \o <<Txt(tag)>> \o p,
     <<Arr(2), Txt(tag)>> \o p,
     <<Null>>,
     <<Map(1), Pos(0)>> \o p,
     <<Txt(tag)>> >>

Reshape ==
  /\ pc = "wire" /\ craft.kind = "encoded"
  /\ \E x \in 1..Len(Reshaped("", <<>>)) :
       /\ wire' = Reshaped(VariantTag(msg.variant), SerializePayload(msg))[x]
       /\ craft' = Made("reshaped", "", x)
  /\ UNCHANGED <<msg, result, out, result2, pc>>

\* The stream cut short.
Truncate ==
  /\ pc = "wire" /\ craft.kind = "encoded"
  /\ \E k \in 0..(Len(wire) - 1) :
       /\ wire' = SubSeq(wire, 1, k)
       /\ craft' = Made("truncated", "", k)
  /\ UNCHANGED <<msg, result, out, result2, pc>>

\* from_reader(bytes)
Decode ==
  /\ pc = "wire"
  /\ result' = FromReader(wire)
  /\ pc' = "decoded"
  /\ UNCHANGED <<msg, wire, craft, out, result2>>

\* into_writer(&actual, &mut out)
ReEncode ==
  /\ pc = "decoded"
  /\ result.ok
  /\ out' = Serialize(result.msg)
  /\ pc' = "reencoded"
  /\ UNCHANGED <<msg, wire, craft, result, result2>>

\* from_reader(&out[..])
DecodeAgain ==
  /\ pc = "reencoded"
  /\ result2' = FromReader(out)
  /\ pc' = "done"
  /\ UNCHANGED <<msg, wire, craft, result, out>>

CodecNext ==
  \/ Encode
  \/ Reorder
  \/ DropField
  \/ AddField
  \/ Retag
  \/ ReplacePayload
  \/ Reshape
  \/ Truncate
  \/ Decode
  \/ ReEncode
  \/ DecodeAgain

Next == CodecNext /\ UNCHANGED <<sessionVars, resolverVars>>

Spec == Init /\ [][Next]_vars

(***************************************************************************)
(* The handshake sequencer.  The codec keeps no session state; the order   *)
(* of the handshake is the contract of the party that reads the decoded    *)
(* stream: certificate chain, launch start, measurement, secret, finish,   *)
(* no step skipped and none repeated.                                      *)
(***************************************************************************)
Handshake ==
  << {"CertificateChainNaples", "CertificateChainRome"},
     {"LaunchStart"}, {"Measurement"}, {"Secret"}, {"Finish"} >>

\* A sequencer that lets a step be skipped.
AdvancesSkipping(n, v) ==
  n < Len(Handshake) /\ \E k \in (n + 1)..Len(Handshake) : v \in Handshake[k]

\* Whether a session that has accepted n steps accepts variant v next.
Advances(n, v) == n < Len(Handshake) /\ v \in Handshake[n + 1]

\* The step a variant stands for.
StepOf(v) == CHOOSE k \in 1..Len(Handshake) : v \in Handshake[k]

\* What the channel may deliver: an encoded Message of any variant (each
\* field holding the same sample contents), or bytes that are none: a lone
\* null, a Secret cut short.
Deliverable ==
  {Serialize(Message(v, [i \in 1..Arity(v) |-> b])) : v \in Variants, b \in Blobs}
    \cup {<<Null>>, <<Map(1), Txt("secret")>>}

\* One message arrives: it is decoded, and accepted if it is the next step.
Deliver ==
  /\ ~flagged
  /\ stage < Len(Handshake)
  /\ \E w \in Deliverable :
       LET r == FromReader(w)
       IN /\ wire' = w
          /\ result' = r
          /\ stream' = Append(stream, r.msg.variant)
          /\ IF r.ok /\ Advances(stage, r.msg.variant)
             THEN /\ stage' = StepOf(r.msg.variant)
                  /\ flagged' = FALSE
             ELSE /\ stage' = stage
                  /\ flagged' = TRUE
  /\ UNCHANGED <<msg, craft, out, result2, pc, resolverVars>>

\* The session is aborted and its partial state discarded.
Abort ==
  /\ stream # <<>>
  /\ stage' = 0
  /\ stream' = <<>>
  /\ flagged' = FALSE
  /\ wire' = <<>>
  /\ result' = NoResult
  /\ UNCHANGED <<msg, craft, out, result2, pc, resolverVars>>

SessionNext ==
  \/ Deliver
  \/ Abort

SessionSpec == Init /\ [][SessionNext]_vars

(***************************************************************************)
(* The payload representation resolver of the split representation: a      *)
(* message is {mimetype, payload}, the payload an opaque blob that is      *)
(* either the structured encoding of what the mimetype names or the raw    *)
(* layout of the platform.                                                 *)
(***************************************************************************)
\* The structured reading: the blob is the encoding of the payload the
\* mimetype names, and nothing else.
Structured(sp) ==
  IF VariantOf(sp.mimetype) = "" THEN Bad("unknown variant")
  ELSE LET r == DeserializePayload(sp.payload, 1, VariantOf(sp.mimetype))
       IN IF r.ok /\ r.pos # Len(sp.payload) + 1 THEN Bad("trailing data")
          ELSE r

\* The raw reading: the blob is laid out as the platform lays that payload
\* out, which the platform's specification decides; a Measurement is a
\* container and is never read raw.
RawLayout(sp) ==
  /\ sp.raw
  /\ VariantOf(sp.mimetype) \notin {"", "Measurement"}

Read(how, sp, fields) ==
  [how |-> how, variant |-> VariantOf(sp.mimetype), fields |-> fields]

\* A resolver that tries the raw layout first.
ResolveRawFirst(sp) ==
  IF RawLayout(sp) THEN Read("raw", sp, <<>>)
  ELSE IF Structured(sp).ok THEN Read("structured", sp, Structured(sp).val)
  ELSE Read("error", sp, <<>>)

\* Structured first, the raw layout when that fails, an error when both do.
Resolve(sp) ==
  IF Structured(sp).ok THEN Read("structured", sp, Structured(sp).val)
  ELSE IF RawLayout(sp) THEN Read("raw", sp, <<>>)
  ELSE Read("error", sp, <<>>)

\* Blobs a split message may carry: the structured encoding of a payload,
\* or bytes that are the encoding of none.
PayloadBlobs == {SerializePayload(m) : m \in Messages} \cup {<<>>, <<Pos(0)>>}

\* A split message arrives.
Receive ==
  /\ split = NoSplit
  /\ \E v \in Variants, b \in PayloadBlobs, raw \in BOOLEAN :
       split' = [mimetype |-> VariantTag(v), payload |-> b, raw |-> raw]
  /\ UNCHANGED <<resolved, codecVars, sessionVars>>

\* Its payload is resolved.
ResolvePayload ==
  /\ split # NoSplit
  /\ resolved = Unresolved
  /\ resolved' = Resolve(split)
  /\ UNCHANGED <<split, codecVars, sessionVars>>

ResolverNext ==
  \/ Receive
  \/ ResolvePayload

ResolverSpec == Init /\ [][ResolverNext]_vars

(***************************************************************************)
(* Properties of the codec                                                 *)
(***************************************************************************)
Decoded == pc \in {"decoded", "reencoded", "done"}
Rewritten == pc \in {"reencoded", "done"}

\* C1: every Message the writer encodes decodes, and decodes to itself,
\* variant and every field byte for byte; so does its second encoding.
RoundTrip ==
  craft.kind = "encoded" =>
    /\ Decoded => result = Ok(msg)
    /\ pc = "done" => result2 = Ok(msg)

RoundTripWitness ==
  /\ pc = "done" /\ craft.kind = "encoded"
  /\ msg.variant = "CertificateChainRome"
  /\ msg.payload[1] = <<>> /\ msg.payload[3] = <<U8Max>>
  /\ result2 = Ok(msg)

\* The payload shapes of the variants: the two certificate chains share one.
Shape(v) ==
  IF v \in {"CertificateChainNaples", "CertificateChainRome"} THEN "Chain" ELSE v

\* C2: an envelope whose tag names one variant and whose payload is that
\* of a variant of another shape is a decode error, never a Message.
TagPayloadCoherence ==
  /\ Decoded
  /\ craft.kind = "retagged"
  /\ VariantOf(craft.tag) # ""
  /\ Shape(VariantOf(craft.tag)) # Shape(msg.variant)
  => ~result.ok

TagPayloadCoherenceWitness ==
  /\ pc = "decoded"
  /\ msg.variant = "LaunchStart" /\ msg.payload[1] # <<>>
  /\ craft = Made("retagged", "measurement", 0)
  /\ ~result.ok

SecretNull == Envelope("secret", <<Null>>)

\* C4: the decoder accepts both forms of the Secret payload: an array of
\* bytes decodes to Secret with those bytes, and null decodes to a Secret
\* too; neither is a decode error.
SecretDualEra ==
  Decoded =>
    /\ \A b \in Blobs :
         wire = Envelope("secret", SerializeBytes(b))
           => result = Ok(Message("Secret", <<b>>))
    /\ wire = SecretNull => result.ok /\ result.msg.variant = "Secret"

\* C5: a Chain, LaunchStart or Measurement map decodes only with exactly
\* the declared field names: one field absent is a decode error, and so is
\* one entry under a name outside the variant's set.
StrictFieldSets ==
  Decoded /\ craft.kind \in {"dropped", "extra"} => ~result.ok

FinishNull == Envelope("finish", <<Null>>)

\* C6: the envelope {"finish": null} decodes to the field-less Finish, and
\* writing that message again gives the input back unchanged.
FinishByteStable ==
  wire = FinishNull =>
    /\ Decoded => result = Ok(Message("Finish", <<>>))
    /\ Rewritten => out = wire

FinishByteStableWitness ==
  /\ pc = "reencoded" /\ wire = FinishNull
  /\ result.ok /\ out = FinishNull

\* The tags the claim lists, by variant.
ClaimedTags ==
  {<<"CertificateChainNaples", "certificate-chain-naples">>,
   <<"CertificateChainRome", "certificate-chain-rome">>,
   <<"LaunchStart", "launch-start">>,
   <<"Measurement", "measurement">>,
   <<"Secret", "secret">>,
   <<"Finish", "finish">>}

\* C7: an encoded Message is one map of exactly one entry whose key is the
\* lowercase-hyphenated tag of its variant, and no two variants share a tag.
EnvelopeShape ==
  /\ craft.kind = "encoded" /\ pc # "idle" =>
       /\ wire[1] = Map(1)
       /\ wire[2].h = "text"
       /\ <<msg.variant, wire[2].s>> \in ClaimedTags
       /\ SkipItems(wire, 1, 1) = Len(wire) + 1
  /\ \A a, b \in Variants : VariantTag(a) = VariantTag(b) => a = b

EnvelopeShapeWitness ==
  /\ pc = "wire" /\ craft.kind = "encoded"
  /\ msg.variant = "LaunchStart"
  /\ wire[2] = Txt("launch-start")

\* C8: an input whose outer container is not a map of exactly one entry,
\* or whose one key is not a variant tag, is a decode error.
EnvelopeRejection ==
  /\ Decoded
  /\ \/ craft.kind = "reshaped"
     \/ craft.kind = "retagged" /\ craft.tag \in UnknownTags
  => ~result.ok

\* C10: the fields of a struct payload decode to the same Message in any
\* order on the wire, and decoding the re-encoding gives that Message again.
FieldOrderIndependent ==
  craft.kind = "reordered" =>
    /\ Decoded => result = Ok(msg)
    /\ pc = "done" => result2 = result

FieldOrderIndependentWitness ==
  /\ pc = "done" /\ craft.kind = "reordered"
  /\ msg.variant = "CertificateChainNaples"
  /\ wire = Envelope("certificate-chain-naples",
                     MapOf(Permuted(EntriesOf(msg), TestChainOrder)))
  /\ msg.payload[3] # msg.payload[5]
  /\ out # wire
  /\ result2 = Ok(msg)

(***************************************************************************)
(* Properties of the sequencer and of the resolver                         *)
(***************************************************************************)
\* The variants the session accepted, in order: all it was sent but, once
\* flagged, the last.
Accepted == IF flagged THEN SubSeq(stream, 1, Len(stream) - 1) ELSE stream

\* C3: within a session a Secret is accepted only after a Measurement was
\* accepted, and a stream that goes from a certificate chain straight to a
\* Secret is flagged invalid.
SecretAfterMeasurement ==
  /\ \A i \in 1..Len(Accepted) :
       Accepted[i] = "Secret" => \E j \in 1..(i - 1) : Accepted[j] = "Measurement"
  /\ Len(stream) >= 2 /\ stream[1] = "CertificateChainNaples"
       /\ stream[2] = "Secret" => flagged

SecretAfterMeasurementWitness ==
  /\ ~flagged /\ stage = 4
  /\ stream = <<"CertificateChainNaples", "LaunchStart", "Measurement", "Secret">>
  /\ result.ok /\ result.msg.payload[1] # <<>>

\* C9: the resolver reads the payload as structured whenever the structured
\* decode succeeds, as raw only when it fails, and gives an error when the
\* blob is valid under neither.
ResolverOrder ==
  resolved # Unresolved =>
    /\ Structured(split).ok => resolved.how = "structured"
    /\ resolved.how = "raw" => ~Structured(split).ok /\ split.raw
    /\ ~Structured(split).ok /\ ~split.raw => resolved.how = "error"

ResolverOrderWitness ==
  /\ resolved.how = "structured"
  /\ split.raw
  /\ split.mimetype = "certificate-chain-rome"
  /\ resolved.fields[1] # <<>>

====
